---- MODULE Spec2Model ----
(***************************************************************************)
(* Model of the group-chat responder: the webhook handler (POST), the      *)
(* per-group RequestManager of AbortControllers, the asynchronous          *)
(* pipeline processMessageAsync and the tool-calling loop of               *)
(* generateChatResponse.                                                   *)
(*                                                                         *)
(* JavaScript runs one handler at a time: a run advances only when one of  *)
(* the promises it awaits settles.  Each action below is therefore one     *)
(* resumption of one run, from the await that settled up to the next await *)
(* (or to the return), with every synchronous call made on the way.        *)
(***************************************************************************)
EXTENDS Integers, Sequences, FiniteSets

(* ---- bounds of the model ---- *)
MaxEvents == 3          \* message_inbound webhooks received in one behaviour
MaxToolCalls == 1       \* tool calls requested by the completion service in one behaviour
MaxBatchEvents == 2     \* the same two bounds for SpecBatch, which explores
MaxBatchCalls == 2      \*   batches of several tool calls under fewer webhooks
MaxLoopEvents == 2      \* the same two bounds for SpecLoop, which explores
MaxLoopCalls == 11      \*   runs through all iterations of the tool loop,
MaxLoopBatch == 1       \*   with this many tool calls in one response at most
MaxOtherEvents == 1     \* webhooks of every group but the busy one in SpecKeys
MaxToolBatch == 2       \* tool calls in the batch that SpecTools handles
MaxExcess == 1          \* tool results up to this many characters over the limit
MaxUrlExcess == 1       \* a media_url up to this many characters over the limit
MaxOver == 1            \* a limit or offset parameter up to this far outside its range
MaxOffset == 2          \* the largest offset parameter
MaxWindow == 3          \* messages in the window a prompt is built from
MaxRounds == 2          \* completion requests of a session that carry tool calls

(* ---- program constants ---- *)
maxToolCalls == 10      \* openai.ts: const maxToolCalls = 10
truncateAt == 2000      \* openai.ts: functionResponse.length > 2000
markerLength == 28        \* "\n... (truncated for context)".length
maxUrlLength == 256     \* tools.ts: args.media_url.length > 256
defaultLimit == 50      \* route.ts: searchParams.get("limit") || "50"
minLimit == 1           \* route.ts: Math.max(limit, 1)
maxLimit == 100         \* route.ts: Math.min(..., 100)

Keys == {"g1", "g2"}    \* group ids (webhook.group.group_id)
MessageIds == {"m1", "m2"}  \* message ids (webhook.message_id)
BusyKey == "g1"         \* the group whose webhooks Spec explores
None == 0               \* Map.get(groupId) === undefined

\* tool_calls entries of a response: a function call whose arguments parse,
\* a call that is not of type "function", a function call whose arguments
\* string is not JSON
ToolKinds == {"function", "custom", "badjson"}

VARIABLES
    abortControllers,   \* RequestManager.abortControllers: group id -> controller id or None
    aborted,            \* the controllers whose signal.aborted is true
    created,            \* number of AbortControllers constructed so far
    runs,               \* the processMessageAsync invocations, in order of their POST
    eventsLeft,         \* per group: webhooks the environment may still send
    callsLeft,          \* tool calls the completion service may still request
                        \*   (a response with an empty tool_calls array counts as one)
    maxBatch,           \* tool calls the completion service puts in one response at most
    \* one pass of generateChatResponse over a batch of tool calls, in detail
    conversationMessages,   \* the turns sent with the next completion request
    toolCalls,          \* responseMessage.tool_calls not yet iterated over
    executed,           \* the executors that have run: call id, tool, full result
    raised,             \* the exceptions executeTool has thrown: call id, error
    thrown,             \* the exception that left the for loop, or "none"
    \* the webhook endpoint and the messages table, in detail
    store,              \* the rows of the messages table, in order of insertion
    response,           \* the last response of POST
    inbound,            \* per run: the webhook that processMessageAsync was called
                        \*   with, and whether its insert was rejected as a duplicate
    \* the read side
    listing,            \* the last response of a listing endpoint, with its request
    prompt              \* the last user turn built from a window, with the window

loopVars == <<conversationMessages, toolCalls, executed, raised, thrown>>

pipelineVars == <<abortControllers, aborted, created, runs, eventsLeft, callsLeft, maxBatch>>

webhookVars == <<store, response, inbound>>

readVars == <<listing, prompt>>

vars == <<abortControllers, aborted, created, runs, eventsLeft, callsLeft, maxBatch,
          conversationMessages, toolCalls, executed, raised, thrown,
          store, response, inbound, listing, prompt>>

Runs == 1..Len(runs)

RECURSIVE SeqsUpTo(_, _)
SeqsUpTo(S, n) ==
    IF n = 0 THEN {<<>>}
    ELSE LET shorter == SeqsUpTo(S, n - 1)
         IN  shorter \cup {Append(s, x) : s \in {t \in shorter : Len(t) = n - 1}, x \in S}

\* responseMessage?.content: undefined or null, "", or a non-empty string
Contents == {"absent", "empty", "text"}

\* what openai.chat.completions.create can settle with when it is not aborted:
\* a rejection (service or transport error), or a message whose tool_calls is
\* absent (has_tool_calls FALSE) or an array, possibly empty, and whose
\* content is one of Contents
Responses(maxCalls) ==
    {[error |-> TRUE, has_tool_calls |-> FALSE, tool_calls |-> <<>>, content |-> "absent"]}
    \cup [error : {FALSE}, has_tool_calls : {FALSE}, tool_calls : {<<>>}, content : Contents]
    \cup [error : {FALSE}, has_tool_calls : {TRUE},
          tool_calls : SeqsUpTo(ToolKinds, maxCalls), content : Contents]

Min(a, b) == IF a < b THEN a ELSE b
Max(a, b) == IF a < b THEN b ELSE a

\* variant: the loop goes on for as long as the response requests tools
LoopContinuesUnbounded(count, resp) == resp.has_tool_calls

\* while (responseMessage?.tool_calls && toolCallCount < maxToolCalls):
\* an array is truthy even when it is empty
LoopContinues(count, resp) == resp.has_tool_calls /\ count < maxToolCalls

\* if (!response) throw ...: undefined, null and "" are falsy
HasResponse(resp) == resp.content = "text"

(* ---- RequestManager ---- *)

\* variant: the previous controller is replaced without being aborted
AbortExistingNever(groupId) == aborted

\* variant: every registered controller is aborted, whatever its group
AbortExistingOfAll(groupId) ==
    aborted \cup {abortControllers[k] : k \in {g \in Keys : abortControllers[g] # None}}

\* const existingController = this.abortControllers.get(groupId);
\* if (existingController) existingController.abort();
AbortExisting(groupId) ==
    IF abortControllers[groupId] # None
    THEN aborted \cup {abortControllers[groupId]}
    ELSE aborted

\* variant: the new controller is returned without being stored in the map
SetNewForgets(groupId) == abortControllers

\* variant: a group that has a controller keeps it
SetNewIfAbsent(groupId) ==
    IF abortControllers[groupId] = None
    THEN [abortControllers EXCEPT ![groupId] = created + 1]
    ELSE abortControllers

\* const newController = new AbortController();
\* this.abortControllers.set(groupId, newController);
SetNew(groupId) == [abortControllers EXCEPT ![groupId] = created + 1]

\* cancelAndCreate(groupId): one synchronous call
cancelAndCreate(groupId) ==
    /\ aborted' = AbortExisting(groupId)
    /\ abortControllers' = SetNew(groupId)
    /\ created' = created + 1

\* variant: remove leaves the map as it is
removeNothing(groupId) == abortControllers

\* remove(groupId) { this.abortControllers.delete(groupId); }
remove(groupId) == [abortControllers EXCEPT ![groupId] = None]

(* ---- the signal a run holds ---- *)

\* variant: the run is handed the signal of a controller nobody aborts
abortSignalDetached(r) == None

\* POST hands abortController.signal to processMessageAsync, which hands it
\* to generateChatResponse
abortSignal(r) == runs[r].signal

\* variant: the pipeline does not look at its signal
AbortedNever(r) == FALSE

\* abortSignal.aborted, as read by the pipeline's own checks
Aborted(r) == abortSignal(r) \in aborted

\* variant: the completion request is made without the signal option
CallIgnoresAbort(r) == FALSE

\* create(..., { signal: abortSignal }): the call rejects with an AbortError
\* once the signal is aborted, before or during the request
CallObservesAbort(r) == abortSignal(r) \in aborted

Live(r) == runs[r].pc # "returned"

\* the runs started by the webhooks of group k, oldest first by index
RunsOf(k) == {q \in Runs : runs[q].groupId = k}

(* ---- steps of a run ---- *)

\* no delivery made, no tool being called
NoTarget == [groupId |-> "none", senderName |-> 0]

\* the parameters groupId and senderName of processMessageAsync, which POST
\* takes from the webhook the run is started for
Own(r) == [groupId |-> runs[r].groupId, senderName |-> runs[r].senderName]

\* variant: one context for all runs, that of the webhook received last
toolContextOfLast(r) == Own(Len(runs))

\* the toolContext that generateChatResponse is called with: the group and
\* the sender name of the run
toolContext(r) == Own(r)

\* the run returns or throws: its outcome, and whether the path taken calls
\* requestManager.remove(groupId); the locals of generateChatResponse
\* (toolCallCount, the batch, the count of its completion requests) are gone
\* with the frame
Finish(r, outcome, cleanup) ==
    /\ runs' = [runs EXCEPT ![r] = [@ EXCEPT !.pc = "returned",
                                            !.outcome = outcome,
                                            !.removed = cleanup,
                                            !.toolCallCount = 0,
                                            !.completionCalls = 0,
                                            !.batch = <<>>,
                                            !.calledWith = NoTarget]]
    /\ abortControllers' = IF cleanup THEN remove(runs[r].groupId) ELSE abortControllers
    /\ UNCHANGED <<aborted, created, eventsLeft, maxBatch>>
    /\ UNCHANGED loopVars

\* the run goes on to its next await
Goto(r, rec) ==
    /\ runs' = [runs EXCEPT ![r] = rec]
    /\ UNCHANGED <<abortControllers, aborted, created, eventsLeft, maxBatch>>
    /\ UNCHANGED loopVars

\* for (const toolCall of responseMessage.tool_calls): the calls the loop
\* acts on.  A call that is not of type "function" is skipped (continue), and
\* JSON.parse throws on a bad arguments string, outside the inner try, so no
\* call after it is reached
RECURSIVE Effective(_)
Effective(calls) ==
    IF calls = <<>> THEN <<>>
    ELSE IF Head(calls) = "custom" THEN Effective(Tail(calls))
    ELSE IF Head(calls) = "badjson" THEN <<"badjson">>
    ELSE <<Head(calls)>> \o Effective(Tail(calls))

\* the loop over the batch continued at `calls`, up to the next await: the
\* throw of JSON.parse reaches the catch of the pipeline, executeTool is
\* awaited for a function call, and after the last call the follow-up
\* completion request is issued.  calledWith is the context of the call of
\* executeTool that is awaited, if one is
ContinueBatch(r, rec, calls) ==
    IF calls = <<>>
    THEN Goto(r, [rec EXCEPT !.pc = "completion", !.batch = <<>>,
                             !.completionCalls = @ + 1,
                             !.calledWith = NoTarget])
    ELSE IF Head(calls) = "badjson"
    THEN Finish(r, "parse_error", TRUE)
    ELSE \* executeTool(functionName, functionArgs, toolContext)
         Goto(r, [rec EXCEPT !.pc = "tool", !.batch = calls,
                             !.calledWith = toolContext(r)])

\* POST, alert_type "message_inbound": cancelAndCreate(groupId), then
\* processMessageAsync runs up to its first await (the insert).  Every
\* webhook carries a sender name of its own, here its number: senderName is
\* webhook.sender_name (or the configured default, or "")
POST(groupId) ==
    /\ eventsLeft[groupId] > 0
    /\ eventsLeft' = [eventsLeft EXCEPT ![groupId] = @ - 1]
    /\ cancelAndCreate(groupId)
    /\ runs' = Append(runs,
          [groupId |-> groupId, senderName |-> Len(runs) + 1,
           target |-> NoTarget, calledWith |-> NoTarget,
           signal |-> created + 1, pc |-> "saving",
           outcome |-> "", toolCallCount |-> 0, completionCalls |-> 0,
           batch |-> <<>>,
           delivered |-> FALSE, removed |-> FALSE,
           liveAtBirth |-> {q \in RunsOf(groupId) : Live(q)},
           freshAtBirth |->
               \A q \in RunsOf(groupId) : Live(q) /\ ~runs[q].delivered])
    /\ UNCHANGED <<callsLeft, maxBatch>>
    /\ UNCHANGED loopVars

\* how the race of the insert against the 10 s timer settles: the insert
\* resolves without error, resolves with dbError, or the timer rejects first
SaveResults == {"saved", "dbError", "timeout"}

\* variant: a message that could not be saved is not processed
SaveStopsOnFailure(result) == result # "saved"

\* "Continue anyway - don't block processing": dbError is logged, the
\* timeout is caught and logged, neither returns nor rethrows
SaveStops(result) == FALSE

\* the insert settles, then the check of line 95 and the select of line 102
SaveSettles(r, result) ==
    /\ runs[r].pc = "saving"
    /\ IF SaveStops(result)
       THEN Finish(r, "save_error", TRUE)
       ELSE IF Aborted(r)
       THEN Finish(r, "cancelled", FALSE)
       ELSE Goto(r, [runs[r] EXCEPT !.pc = "fetching"])
    /\ UNCHANGED callsLeft

\* variant: the number of rows fetched is not looked at
WindowEmptyNever(result) == FALSE

\* if (!recentMessages || recentMessages.length === 0)
WindowEmpty(result) == result = "empty"

\* the select settles: fetchError, no rows, or rows; with rows the check of
\* line 122, then generateChatResponse up to its first completion request
FetchSettles(r, result) ==
    /\ runs[r].pc = "fetching"
    /\ IF result = "fetchError" THEN Finish(r, "fetch_error", FALSE)
       ELSE IF WindowEmpty(result) THEN Finish(r, "no_messages", FALSE)
       ELSE IF Aborted(r) THEN Finish(r, "cancelled", FALSE)
       ELSE Goto(r, [runs[r] EXCEPT !.pc = "completion", !.completionCalls = 1])
    /\ UNCHANGED callsLeft

\* a completion request rejects because its signal is aborted: AbortError ->
\* Error("Request cancelled") -> catch of the pipeline (remove, return)
CompletionAborts(r) ==
    /\ runs[r].pc = "completion"
    /\ CallObservesAbort(r)
    /\ Finish(r, "request_cancelled", TRUE)
    /\ UNCHANGED callsLeft

\* variant: a rejected completion request is issued again
OnCompletionErrorRetries(r) ==
    Goto(r, [runs[r] EXCEPT !.completionCalls = @ + 1])

\* a completion request rejects for another reason: the error is rethrown by
\* generateChatResponse and by the catch of the pipeline (remove, log, throw)
OnCompletionError(r) == Finish(r, "completion_error", TRUE)

\* a completion request settles otherwise
CompletionSettles(r, resp) ==
    /\ runs[r].pc = "completion"
    /\ ~CallObservesAbort(r)
    /\ IF resp.error
       THEN OnCompletionError(r) /\ UNCHANGED callsLeft
       ELSE IF LoopContinues(runs[r].toolCallCount, resp)
       THEN \* loop body: count, push the assistant message, run the batch
            /\ callsLeft >= Max(1, Len(resp.tool_calls))
            /\ callsLeft' = callsLeft - Max(1, Len(resp.tool_calls))
            /\ ContinueBatch(r, [runs[r] EXCEPT !.toolCallCount = @ + 1],
                             Effective(resp.tool_calls))
       ELSE IF ~HasResponse(resp)
       THEN \* throw new Error("No response generated from OpenAI")
            Finish(r, "no_response", TRUE) /\ UNCHANGED callsLeft
       ELSE IF Aborted(r)
       THEN Finish(r, "cancelled", FALSE) /\ UNCHANGED callsLeft
       ELSE \* sendGroupMessage(groupId, aiResponse, senderName) is called
            /\ Goto(r, [runs[r] EXCEPT !.pc = "sending", !.delivered = TRUE,
                                        !.target = Own(r)])
            /\ UNCHANGED callsLeft

\* executeTool settles (a result string or a throw: either way one tool
\* message is pushed), then the rest of the batch
ToolSettles(r) ==
    /\ runs[r].pc = "tool"
    /\ ContinueBatch(r, runs[r], Tail(runs[r].batch))
    /\ UNCHANGED callsLeft

\* the final sendGroupMessage settles: remove and return, or throw into the
\* catch (remove, rethrow)
SendSettles(r, ok) ==
    /\ runs[r].pc = "sending"
    /\ Finish(r, IF ok THEN "done" ELSE "send_error", TRUE)
    /\ UNCHANGED callsLeft

\* no batch of tool calls is being looked at in detail
NoToolLoop ==
    /\ conversationMessages = <<>>
    /\ toolCalls = <<>>
    /\ executed = <<>>
    /\ raised = <<>>
    /\ thrown = "none"

\* webhook.group?.group_id is undefined
NoGroup == "none"

\* webhook.alert_type: the three the handler has a branch for, and another
AlertTypes == {"group_created", "message_inbound", "message_sent", "message_reaction"}

\* a request whose body request.json() cannot parse, or parses to null
Unparsable ==
    [body |-> "unparsable", alert_type |-> "", group_id |-> NoGroup,
     message_id |-> "", webhook_id |-> ""]

\* the requests to the webhook endpoint: a JSON object with its alert_type,
\* group.group_id (of the busy group, or none), message_id and webhook_id,
\* or a body that is no such object.  Every message has its one webhook,
\* which may be delivered more than once, with the same ids
Webhooks ==
    {[body |-> "json", alert_type |-> a, group_id |-> g, message_id |-> m,
      webhook_id |-> m] : a \in AlertTypes, g \in {BusyKey, NoGroup}, m \in MessageIds}
    \cup {Unparsable}

\* a response of POST: its status, the success and error fields of its body
\* (error: an error message is there), and the group of the webhook it
\* answers
NoResponse == [status |-> 0, success |-> FALSE, error |-> FALSE, group_id |-> NoGroup]

\* the endpoint has not been called and the table is empty
NoWebhook ==
    /\ store = <<>>
    /\ response = NoResponse
    /\ inbound = <<>>

\* searchParams.get(name): null, or the text of an integer, here the integer
NoParam == [given |-> FALSE, value |-> 0]

Params(values) == {NoParam} \cup [given : {TRUE}, value : values]

NoPagination == [limit |-> 0, offset |-> 0, total |-> 0, has_more |-> FALSE]

\* a request to a listing endpoint with its limit and offset parameters, the
\* count that the count query returns (null, or a number) and whether the
\* range query fails; and the response to it: status 0 while there is none
NoListing ==
    [route |-> "none", limit |-> NoParam, offset |-> NoParam, count |-> NoParam,
     error |-> FALSE, status |-> 0, pagination |-> NoPagination]

\* a window (messages, most recent first) and the lines of the user turn
\* built from it
NoPrompt == [messages |-> <<>>, built |-> FALSE, lines |-> <<>>]

\* no listing endpoint has been called and no prompt has been built
NoRead ==
    /\ listing = NoListing
    /\ prompt = NoPrompt

Init ==
    /\ NoToolLoop
    /\ NoWebhook
    /\ NoRead
    /\ abortControllers = [k \in Keys |-> None]
    /\ aborted = {}
    /\ created = 0
    /\ runs = <<>>
    /\ eventsLeft = [k \in Keys |-> IF k = BusyKey THEN MaxEvents ELSE 0]
    /\ callsLeft = MaxToolCalls
    /\ maxBatch = MaxToolCalls

\* the pipeline with the messages table and the HTTP responses left out:
\* every webhook is a message_inbound of a group, and the insert settles in
\* any of its three ways whatever the table holds
Next ==
    /\ \/ \E k \in Keys : POST(k)
       \/ \E r \in Runs : \E result \in SaveResults : SaveSettles(r, result)
       \/ \E r \in Runs : \E result \in {"fetchError", "empty", "rows"} : FetchSettles(r, result)
       \/ \E r \in Runs : CompletionAborts(r)
       \/ \E r \in Runs : \E resp \in Responses(Min(callsLeft, maxBatch)) : CompletionSettles(r, resp)
       \/ \E r \in Runs : ToolSettles(r)
       \/ \E r \in Runs : \E ok \in BOOLEAN : SendSettles(r, ok)
    /\ UNCHANGED <<webhookVars, readVars>>

Spec == Init /\ [][Next]_vars

\* the same program under fewer webhooks and more tool calls
InitBatch ==
    /\ NoToolLoop
    /\ NoWebhook
    /\ NoRead
    /\ abortControllers = [k \in Keys |-> None]
    /\ aborted = {}
    /\ created = 0
    /\ runs = <<>>
    /\ eventsLeft = [k \in Keys |-> IF k = BusyKey THEN MaxBatchEvents ELSE 0]
    /\ callsLeft = MaxBatchCalls
    /\ maxBatch = MaxBatchCalls

SpecBatch == InitBatch /\ [][Next]_vars

\* the same program under enough tool calls to exhaust the loop
InitLoop ==
    /\ NoToolLoop
    /\ NoWebhook
    /\ NoRead
    /\ abortControllers = [k \in Keys |-> None]
    /\ aborted = {}
    /\ created = 0
    /\ runs = <<>>
    /\ eventsLeft = [k \in Keys |-> IF k = BusyKey THEN MaxLoopEvents ELSE 0]
    /\ callsLeft = MaxLoopCalls
    /\ maxBatch = MaxLoopBatch

SpecLoop == InitLoop /\ [][Next]_vars

\* the same program with webhooks for more than one group: two for the busy
\* group, MaxOtherEvents for every other group, and one tool call
InitKeys ==
    /\ NoToolLoop
    /\ NoWebhook
    /\ NoRead
    /\ abortControllers = [k \in Keys |-> None]
    /\ aborted = {}
    /\ created = 0
    /\ runs = <<>>
    /\ eventsLeft = [k \in Keys |-> IF k = BusyKey THEN 2 ELSE MaxOtherEvents]
    /\ callsLeft = 1
    /\ maxBatch = 1

SpecKeys == InitKeys /\ [][Next]_vars

\* the same program with two webhooks for one group and tool calls enough
\* for both runs to go through every iteration of the loop and be answered
\* by one more request for tools, under the
\* assumption that what a run awaits settles: the insert, the select, a tool
\* and the final send settle in some way, a completion request whose signal
\* is aborted rejects, and one whose signal is not aborted is answered, by a
\* response that requests tools whenever such a response is possible.
\* Webhooks arrive or not, at any time.
InitLive ==
    /\ NoToolLoop
    /\ NoWebhook
    /\ NoRead
    /\ abortControllers = [k \in Keys |-> None]
    /\ aborted = {}
    /\ created = 0
    /\ runs = <<>>
    /\ eventsLeft = [k \in Keys |-> IF k = BusyKey THEN 2 ELSE 0]
    /\ callsLeft = 2 * maxToolCalls + 1
    /\ maxBatch = 1

RequestsTools(r) ==
    \E resp \in Responses(Min(callsLeft, maxBatch)) :
        /\ Len(resp.tool_calls) > 0
        /\ CompletionSettles(r, resp)

Step(r, A) == r \in Runs /\ A /\ UNCHANGED <<webhookVars, readVars>>

Settles(r) ==
    /\ WF_vars(Step(r, \E result \in SaveResults : SaveSettles(r, result)))
    /\ WF_vars(Step(r, \E result \in {"fetchError", "empty", "rows"} :
                           FetchSettles(r, result)))
    /\ WF_vars(Step(r, CompletionAborts(r)))
    /\ WF_vars(Step(r, RequestsTools(r)))
    /\ WF_vars(Step(r, ToolSettles(r)))
    /\ WF_vars(Step(r, \E ok \in BOOLEAN : SendSettles(r, ok)))

SpecLive == InitLive /\ [][Next]_vars /\ \A r \in 1..2 : Settles(r)

(***************************************************************************)
(* The webhook endpoint in detail: every kind of request, the response to  *)
(* each, and the rows of the messages table with its UNIQUE constraints.   *)
(***************************************************************************)

\* the row that an insert of the handler builds from a webhook
Row(webhook, is_assistant) ==
    [message_id |-> webhook.message_id, webhook_id |-> webhook.webhook_id,
     group_id |-> webhook.group_id, is_assistant |-> is_assistant]

\* variant: the table has no constraint
ViolatesNothing(rows, row) == FALSE

\* message_id TEXT UNIQUE NOT NULL, webhook_id TEXT UNIQUE NOT NULL,
\* group_id TEXT NOT NULL: the insert of this row is rejected
Violates(rows, row) ==
    \/ \E i \in 1..Len(rows) :
          rows[i].message_id = row.message_id \/ rows[i].webhook_id = row.webhook_id
    \/ row.group_id = NoGroup

\* NextResponse.json({ success: true }, { status: 200 })
Success(webhook) ==
    [status |-> 200, success |-> TRUE, error |-> FALSE, group_id |-> webhook.group_id]

\* variant: an internal error is answered with status 500
FailureAs500(webhook) ==
    [status |-> 500, success |-> FALSE, error |-> TRUE, group_id |-> webhook.group_id]

\* the catch of POST:
\*   NextResponse.json({ success: false, error: ... }, { status: 200 })
Failure(webhook) ==
    [status |-> 200, success |-> FALSE, error |-> TRUE, group_id |-> webhook.group_id]

\* variant: a webhook without a group is written to the table
IgnoreButStore(webhook) ==
    /\ response' = Success(webhook)
    /\ store' = Append(store, Row(webhook, FALSE))
    /\ UNCHANGED <<pipelineVars, inbound>>

\* if (!webhook.group?.group_id) return NextResponse.json({ success: true }, ...)
Ignore(webhook) ==
    /\ response' = Success(webhook)
    /\ UNCHANGED <<pipelineVars, store, inbound>>

\* only the message_sent branch of POST awaits an insert
DbStates(webhook) ==
    IF webhook.alert_type = "message_sent" THEN {"up", "down"} ELSE {"up"}

\* POST(request), the whole handler.  db tells whether the table can be
\* reached by the insert of the message_sent branch
Webhook(webhook, db) ==
    /\ IF webhook.body = "unparsable"
       THEN /\ response' = Failure(webhook)
            /\ UNCHANGED <<pipelineVars, store, inbound>>
       ELSE IF webhook.group_id = NoGroup
       THEN Ignore(webhook)
       ELSE IF webhook.alert_type = "message_inbound"
       THEN /\ POST(webhook.group_id)
            /\ inbound' = Append(inbound, [webhook |-> webhook, duplicate |-> FALSE])
            /\ response' = Success(webhook)
            /\ UNCHANGED store
       ELSE IF webhook.alert_type = "message_sent"
       THEN /\ store' = IF db = "down" \/ Violates(store, Row(webhook, TRUE))
                        THEN store
                        ELSE Append(store, Row(webhook, TRUE))
            /\ response' = Success(webhook)
            /\ UNCHANGED <<pipelineVars, inbound>>
       ELSE /\ response' = Success(webhook)
            /\ UNCHANGED <<pipelineVars, store, inbound>>
    /\ UNCHANGED loopVars

\* the insert of run r settles (SaveSettles) against the table: it resolves
\* without error only if the row was accepted; it resolves with dbError, the
\* row rejected (as a duplicate, which is noted) or the table not reached;
\* or the timer wins the race, and the insert, which goes on, may still land
InsertSettles(r, result, lands) ==
    LET row == Row(inbound[r].webhook, FALSE)
    IN  /\ SaveSettles(r, result)
        /\ result = "saved" => lands
        /\ result = "dbError" => ~lands
        /\ lands => ~Violates(store, row)
        /\ store' = IF lands THEN Append(store, row) ELSE store
        /\ inbound' = [inbound EXCEPT ![r].duplicate =
                          result = "dbError" /\ Violates(store, row)]
        /\ UNCHANGED response

\* two message_inbound webhooks for the busy group, any number of other
\* webhooks, and a completion service that requests no tool call
InitWebhook ==
    /\ NoToolLoop
    /\ NoWebhook
    /\ NoRead
    /\ abortControllers = [k \in Keys |-> None]
    /\ aborted = {}
    /\ created = 0
    /\ runs = <<>>
    /\ eventsLeft = [k \in Keys |-> IF k = BusyKey THEN 2 ELSE 0]
    /\ callsLeft = 0
    /\ maxBatch = 0

NextWebhook ==
    /\ \/ \E webhook \in Webhooks : \E db \in DbStates(webhook) : Webhook(webhook, db)
       \/ \E r \in Runs : \E result \in SaveResults : \E lands \in BOOLEAN :
             InsertSettles(r, result, lands)
       \/ /\ \/ \E r \in Runs : \E result \in {"fetchError", "empty", "rows"} :
                   FetchSettles(r, result)
             \/ \E r \in Runs : CompletionAborts(r)
             \/ \E r \in Runs : \E resp \in Responses(Min(callsLeft, maxBatch)) :
                   CompletionSettles(r, resp)
             \/ \E r \in Runs : \E ok \in BOOLEAN : SendSettles(r, ok)
          /\ UNCHANGED webhookVars
    /\ UNCHANGED readVars

SpecWebhook == InitWebhook /\ [][NextWebhook]_vars

(***************************************************************************)
(* The for loop over one batch of tool calls, in detail: the turns pushed, *)
(* the tool registry (executeTool, toolExecutors) and the truncation of    *)
(* results.  The signal is not aborted during this pass.                   *)
(***************************************************************************)

\* the keys of the toolExecutors object literal (both versions of tools.ts)
Registered == {"send_message", "get_user_histories", "send_audio_message", "web_search"}

\* tool names a response can carry: the registered ones, a name that is no
\* property of toolExecutors, and two names that toolExecutors, an object
\* literal, inherits from Object.prototype: "toString" (a function) and
\* "__proto__" (an object that is not a function)
\* A name is whatever string the response carries: "long_unknown_tool"
\* stands for a name that is no property of toolExecutors and is longer than
\* the truncation limit and its marker together
ToolNames ==
    Registered \cup {"unknown_tool", "long_unknown_tool", "toString", "__proto__"}

\* toolName.length
NameLength(name) ==
    IF name = "long_unknown_tool" THEN truncateAt + markerLength ELSE 12

\* JSON.stringify({ error: error.message }).length for the errors that
\* executeTool throws: 12 characters of JSON around the message, which is
\* `Unknown tool: ${toolName}` (14 characters and the name) or the
\* TypeError's "executor is not a function" (26 characters)
ErrorLength(raises, name) ==
    IF raises = "UnknownTool" THEN 12 + 14 + NameLength(name) ELSE 12 + 26

\* toolCall.function.arguments: the JSON of an object, the JSON "null", or a
\* string that is not JSON
Arguments == {"object", "null", "malformed"}

\* args.media_url: a string, of which the executor looks at its prefix and
\* its length, or a value without a startsWith method (the property is
\* missing, or is no string)
NoUrl == [kind |-> "other", https |-> FALSE, length |-> 0]

MediaUrls ==
    [kind : {"string"}, https : BOOLEAN,
     length : (maxUrlLength - 1) .. (maxUrlLength + MaxUrlExcess)]

\* a tool call is of type "function" with a name and arguments, or of
\* another type; the arguments object of a send_audio_message call may
\* carry a media_url
ToolCalls ==
    [type : {"function"}, name : ToolNames, arguments : Arguments, media_url : {NoUrl}]
    \cup [type : {"function"}, name : {"send_audio_message"}, arguments : {"object"},
          media_url : MediaUrls]
    \cup [type : {"custom"}, name : {"unknown_tool"}, arguments : {"object"},
          media_url : {NoUrl}]

\* lengths of a string an executor builds from what an external service or
\* an exception gives it: short (16, as "No results found"), or around the
\* limit
ResultLengths == {16} \cup ((truncateAt - 1) .. (truncateAt + MaxExcess))

\* a string produced for a tool message: what it is (shape), how many
\* characters of it are kept (len), and whether the truncation marker
\* "\n... (truncated for context)" follows them.  Shapes: "success" is
\* JSON.stringify({ success: true, ... }); "failure" is JSON.stringify({
\* success: false, error }); "text" is the plain text of web_search; "error"
\* is JSON.stringify({ error: error.message }); "object" is the string
\* "[object Undefined]"
Str(shape, len) == [shape |-> shape, len |-> len, marker |-> FALSE]

ErrorShaped(str) == str.shape \in {"failure", "error"}

\* variant: the result is pushed as it is
TruncateNever(str) == str

\* functionResponse.length > 2000
\*     ? functionResponse.substring(0, 2000) + "\n... (truncated for context)"
\*     : functionResponse
Truncate(str) ==
    IF str.len > truncateAt
    THEN [str EXCEPT !.len = truncateAt, !.marker = TRUE]
    ELSE str

\* variant: the scheme of the URL is not looked at
UrlAcceptedAnyScheme(media_url) ==
    media_url.kind = "string" /\ ~(media_url.length > maxUrlLength)

\* the two checks of send_audio_message pass:
\*   if (!args.media_url.startsWith("https://")) throw ...
\*   if (args.media_url.length > 256) throw ...
\* startsWith of a value that has no such method throws a TypeError
UrlAccepted(media_url) ==
    /\ media_url.kind = "string"
    /\ media_url.https
    /\ ~(media_url.length > maxUrlLength)

\* the delivery function the executor calls, "none" when it calls none:
\* send_message calls sendGroupMessage once args.text has been read,
\* send_audio_message calls sendGroupAudioMessage once both checks of
\* args.media_url have passed
DeliveryCall(name, arguments, media_url) ==
    IF arguments = "null" THEN "none"
    ELSE IF name = "send_message" THEN "sendGroupMessage"
    ELSE IF name = "send_audio_message" /\ UrlAccepted(media_url)
         THEN "sendGroupAudioMessage"
    ELSE "none"

\* toolExecutors[name](args, context): every executor body is one try/catch.
\* Reading a property of args when args is null throws inside the try, as
\* does a failing external call (api = "fails") and a media_url that
\* send_audio_message rejects; the catch returns the failure JSON with
\* error.message in it.  Otherwise the executor returns its result: a fixed
\* success JSON for send_message (54 characters) and send_audio_message
\* (60), the items for get_user_histories, plain text for web_search
toolExecutors(name, arguments, media_url, api, len) ==
    IF arguments = "null" \/ api = "fails" THEN Str("failure", len)
    ELSE IF name = "send_audio_message" /\ ~UrlAccepted(media_url)
         THEN Str("failure", len)
    ELSE IF name = "send_message" THEN Str("success", 54)
    ELSE IF name = "send_audio_message" THEN Str("success", 60)
    ELSE IF name = "web_search" THEN Str("text", len)
    ELSE Str("success", len)

\* const executor = toolExecutors[toolName]: a property lookup on an object
\* literal, which also finds what Object.prototype provides
Lookup(name) ==
    IF name \in Registered THEN "executor"
    ELSE IF name = "toString" THEN "inherited_function"
    ELSE IF name = "__proto__" THEN "inherited_object"
    ELSE "undefined"

\* executeTool(toolName, args, context): what it throws ("none" when it
\* returns), whether an executor of the registry ran, and the string
\* returned or, when it throws, the string the catch of the caller builds
\* from error.message.
\*   if (!executor) throw new Error(`Unknown tool: ${toolName}`);
\*   return await executor(args, context);
\* Object.prototype.toString called without a receiver returns
\* "[object Undefined]"; calling a value that is not a function throws a
\* TypeError
executeTool(name, arguments, media_url, api, len) ==
    IF Lookup(name) = "undefined"
    THEN [raises |-> "UnknownTool", ran |-> FALSE,
          result |-> Str("error", ErrorLength("UnknownTool", name))]
    ELSE IF Lookup(name) = "inherited_object"
    THEN [raises |-> "TypeError", ran |-> FALSE,
          result |-> Str("error", ErrorLength("TypeError", name))]
    ELSE IF Lookup(name) = "inherited_function"
    THEN [raises |-> "none", ran |-> FALSE, result |-> Str("object", 18)]
    ELSE [raises |-> "none", ran |-> TRUE,
          result |-> toolExecutors(name, arguments, media_url, api, len)]

\* a batch as the response carries it: every call has its id (toolCall.id),
\* unique within the response; here its position
WithIds(calls) ==
    [i \in 1..Len(calls) |->
        [id |-> i, type |-> calls[i].type, name |-> calls[i].name,
         arguments |-> calls[i].arguments, media_url |-> calls[i].media_url]]

Turn(role, id, content) == [role |-> role, tool_call_id |-> id, content |-> content]

\* if (toolCall.type !== "function") continue;
SkipToolCall ==
    /\ thrown = "none"
    /\ toolCalls # <<>>
    /\ Head(toolCalls).type # "function"
    /\ toolCalls' = Tail(toolCalls)
    /\ UNCHANGED <<conversationMessages, executed, raised, thrown>>
    /\ UNCHANGED pipelineVars

\* JSON.parse(toolCall.function.arguments) throws a SyntaxError, outside the
\* inner try: the for loop is left
ParseThrows ==
    /\ thrown = "none"
    /\ toolCalls # <<>>
    /\ Head(toolCalls).type = "function"
    /\ Head(toolCalls).arguments = "malformed"
    /\ thrown' = "SyntaxError"
    /\ UNCHANGED <<conversationMessages, toolCalls, executed, raised>>
    /\ UNCHANGED pipelineVars

\* one iteration for a function call whose arguments parse: executeTool is
\* awaited; its result is truncated and pushed as a tool message, or what it
\* throws is caught and pushed as an error tool message, as it is:
\*   content: JSON.stringify({ error: error.message })
HandleToolCall(api, len) ==
    /\ thrown = "none"
    /\ toolCalls # <<>>
    /\ Head(toolCalls).type = "function"
    /\ Head(toolCalls).arguments # "malformed"
    /\ LET toolCall == Head(toolCalls)
           id == toolCall.id
           d == executeTool(toolCall.name, toolCall.arguments, toolCall.media_url,
                            api, len)
       IN  /\ executed' = IF d.ran
                          THEN Append(executed,
                                      [id |-> id, name |-> toolCall.name,
                                       media_url |-> toolCall.media_url,
                                       delivery |-> DeliveryCall(toolCall.name,
                                                                 toolCall.arguments,
                                                                 toolCall.media_url),
                                       result |-> d.result])
                          ELSE executed
           /\ raised' = IF d.raises # "none"
                        THEN Append(raised, [id |-> id, error |-> d.raises])
                        ELSE raised
           /\ conversationMessages' =
                 Append(conversationMessages,
                        IF d.raises = "none"
                        THEN Turn("tool", id, Truncate(d.result))
                        ELSE Turn("tool", id, d.result))
    /\ toolCalls' = Tail(toolCalls)
    /\ UNCHANGED thrown
    /\ UNCHANGED pipelineVars

\* the state when the for loop starts: the system and user turns and the
\* assistant message that carries the batch have been pushed
InitTools ==
    /\ abortControllers = [k \in Keys |-> None]
    /\ aborted = {}
    /\ created = 0
    /\ runs = <<>>
    /\ eventsLeft = [k \in Keys |-> 0]
    /\ callsLeft = 0
    /\ maxBatch = 0
    /\ conversationMessages = <<Turn("system", 0, Str("text", 0)),
                                Turn("user", 0, Str("text", 0)),
                                Turn("assistant", 0, Str("text", 0))>>
    /\ toolCalls \in {WithIds(calls) : calls \in SeqsUpTo(ToolCalls, MaxToolBatch)}
    /\ executed = <<>>
    /\ raised = <<>>
    /\ thrown = "none"
    /\ NoWebhook
    /\ NoRead

NextTools ==
    /\ \/ SkipToolCall
       \/ ParseThrows
       \/ \E api \in {"ok", "fails"} : \E len \in ResultLengths : HandleToolCall(api, len)
    /\ UNCHANGED <<webhookVars, readVars>>

SpecTools == InitTools /\ [][NextTools]_vars

(***************************************************************************)
(* A whole session of generateChatResponse: completion responses and the   *)
(* for loop over the batch of each, as far as the conversation goes.       *)
(* callsLeft counts the completion requests the session may still make.    *)
(***************************************************************************)

\* the tool calls a response of this session is made of
RoundCalls ==
    { c \in ToolCalls :
        /\ c.media_url = NoUrl
        /\ \/ c.type = "custom"
           \/ c.name = "send_message" /\ c.arguments \in {"object", "malformed"}
           \/ c.name = "unknown_tool" /\ c.arguments = "object" }

\* the tool_calls of a response: absent, or an array of at most two calls
Batches == SeqsUpTo(RoundCalls, 2)

\* the ids of the calls of a response, unique in the session: the position
\* of the call among all calls of the session
IdsIssued(messages) ==
    LET n[i \in 0..Len(messages)] ==
            IF i = 0 THEN 0
            ELSE n[i - 1] + (IF messages[i].role = "assistant"
                             THEN Len(messages[i].tool_calls) ELSE 0)
    IN  n[Len(messages)]

WithIdsFrom(calls, offset) ==
    [i \in 1..Len(calls) |->
        [id |-> offset + i, type |-> calls[i].type, name |-> calls[i].name,
         arguments |-> calls[i].arguments, media_url |-> calls[i].media_url]]

\* responseMessage, as pushed: an assistant message with the ids of its
\* tool_calls
AssistantTurn(calls) ==
    [role |-> "assistant", tool_call_id |-> 0, content |-> Str("text", 0),
     tool_calls |-> [i \in 1..Len(calls) |-> calls[i].id]]

\* variant: conversationMessages.unshift(responseMessage)
PushFront(messages, turn) == <<turn>> \o messages

\* conversationMessages.push(responseMessage)
Push(messages, turn) == Append(messages, turn)

\* a completion request of the session settles, the initial one or the one
\* that follows a batch: without tool_calls the while loop is not entered
\* (or is left) and the session ends; with tool_calls the message is pushed
\* and the for loop starts on its calls
Completion(present, calls) ==
    /\ thrown = "none"
    /\ toolCalls = <<>>
    /\ callsLeft > 0
    /\ IF present
       THEN LET batch == WithIdsFrom(calls, IdsIssued(conversationMessages))
            IN  /\ conversationMessages' =
                      Push(conversationMessages, AssistantTurn(batch))
                /\ toolCalls' = batch
                /\ callsLeft' = callsLeft - 1
       ELSE /\ callsLeft' = 0
            /\ UNCHANGED <<conversationMessages, toolCalls>>
    /\ UNCHANGED <<executed, raised, thrown>>
    /\ UNCHANGED <<abortControllers, aborted, created, runs, eventsLeft, maxBatch>>

InitRounds ==
    /\ abortControllers = [k \in Keys |-> None]
    /\ aborted = {}
    /\ created = 0
    /\ runs = <<>>
    /\ eventsLeft = [k \in Keys |-> 0]
    /\ callsLeft = MaxRounds
    /\ maxBatch = 0
    /\ conversationMessages = <<Turn("system", 0, Str("text", 0)),
                                Turn("user", 0, Str("text", 0))>>
    /\ toolCalls = <<>>
    /\ executed = <<>>
    /\ raised = <<>>
    /\ thrown = "none"
    /\ NoWebhook
    /\ NoRead

NextRounds ==
    /\ \/ \E present \in BOOLEAN : \E calls \in Batches : Completion(present, calls)
       \/ SkipToolCall
       \/ ParseThrows
       \/ \E api \in {"ok", "fails"} : HandleToolCall(api, 16)
    /\ UNCHANGED <<webhookVars, readVars>>

SpecRounds == InitRounds /\ [][NextRounds]_vars

(***************************************************************************)
(* The listing endpoints GET /api/groups and                               *)
(* GET /api/groups/[group_id]/messages: one request and its response.      *)
(***************************************************************************)

\* the limit parameters: none, or an integer from below the range to above it
LimitParams == Params((minLimit - 1 - MaxOver) .. (maxLimit + MaxOver))

OffsetParams == Params((0 - MaxOver) .. MaxOffset)

\* what the count query gives: null, or the number of rows
Counts == Params(0 .. (maxLimit + MaxOffset + MaxOver))

\* parseInt(searchParams.get(name) || fallback), and totalCount || 0
OrElse(param, fallback) == IF param.given THEN param.value ELSE fallback

\* variant: the limit is used as it was given
validLimitUnclamped(limit) == limit

\* Math.min(Math.max(limit, 1), 100)
validLimit(limit) == Min(Max(limit, minLimit), maxLimit)

\* Math.max(offset, 0)
validOffset(offset) == Max(offset, 0)

\* the pagination object of the response
Pagination(limit, offset, count) ==
    LET l == validLimit(OrElse(limit, defaultLimit))
        o == validOffset(OrElse(offset, 0))
        totalCount == OrElse(count, 0)
    IN  [limit |-> l, offset |-> o, total |-> totalCount,
         has_more |-> totalCount > o + l]

Requests(routes) ==
    [route : routes, limit : LimitParams, offset : OffsetParams, count : Counts,
     error : BOOLEAN, status : {0}, pagination : {NoPagination}]

\* GET of route.ts answers the request
GET_groups ==
    /\ listing.route = "groups"
    /\ listing.status = 0
    /\ listing' = IF listing.error
                  THEN [listing EXCEPT !.status = 500]
                  ELSE [listing EXCEPT !.status = 200,
                                       !.pagination = Pagination(listing.limit,
                                                                 listing.offset,
                                                                 listing.count)]
    /\ UNCHANGED <<pipelineVars, loopVars, webhookVars, prompt>>

\* GET of [group_id]/messages/route.ts answers the request; the route is
\* "messages" with a group id in the path and "messages_no_group" without
GET_messages ==
    /\ listing.route \in {"messages", "messages_no_group"}
    /\ listing.status = 0
    /\ listing' = IF listing.route = "messages_no_group"
                  THEN [listing EXCEPT !.status = 400]
                  ELSE IF listing.error
                  THEN [listing EXCEPT !.status = 500]
                  ELSE [listing EXCEPT !.status = 200,
                                       !.pagination = Pagination(listing.limit,
                                                                 listing.offset,
                                                                 listing.count)]
    /\ UNCHANGED <<pipelineVars, loopVars, webhookVars, prompt>>

InitList ==
    /\ NoToolLoop
    /\ NoWebhook
    /\ abortControllers = [k \in Keys |-> None]
    /\ aborted = {}
    /\ created = 0
    /\ runs = <<>>
    /\ eventsLeft = [k \in Keys |-> 0]
    /\ callsLeft = 0
    /\ maxBatch = 0
    /\ listing \in Requests({"groups", "messages", "messages_no_group"})
    /\ prompt = NoPrompt

NextList ==
    \/ GET_groups
    \/ GET_messages

SpecList == InitList /\ [][NextList]_vars

(***************************************************************************)
(* The user turn that generateChatResponse builds from the window.         *)
(***************************************************************************)

\* msg.text: null, "", or a text
Texts == {"null", "empty", "text"}

\* msg.recipient: null, or a phone number
Recipients == {"null", "+15550100"}

\* the rows of a window
Messages == [text : Texts, is_assistant : BOOLEAN, recipient : Recipients]

\* a window as the select returns it, most recent first; nth is the place of
\* a row in it
Window(rows) ==
    [i \in 1..Len(rows) |->
        [nth |-> i, text |-> rows[i].text, is_assistant |-> rows[i].is_assistant,
         recipient |-> rows[i].recipient]]

\* variant: the window is used in the order given
Unreversed(messages) == messages

\* [...messages].reverse()
Reverse(messages) ==
    [i \in 1..Len(messages) |-> messages[Len(messages) + 1 - i]]

\* .filter((msg) => msg.text): null and "" are falsy
HasText(msg) == msg.text = "text"

\* the template of one line: the label before the colon, and the text, here
\* the place of its message in the window
FormatLine(msg) ==
    IF msg.is_assistant
    THEN [label |-> "Assistant", nth |-> msg.nth]
    ELSE [label |-> IF msg.recipient = "null" THEN "Unknown" ELSE msg.recipient,
          nth |-> msg.nth]

\* conversationContext before its join("\n"): one entry per line
conversationContext(messages) ==
    LET chronologicalMessages == SelectSeq(Reverse(messages), HasText)
    IN  [i \in 1..Len(chronologicalMessages) |-> FormatLine(chronologicalMessages[i])]

\* generateChatResponse builds formattedMessages
FormatMessages ==
    /\ ~prompt.built
    /\ prompt' = [prompt EXCEPT !.built = TRUE,
                                !.lines = conversationContext(prompt.messages)]
    /\ UNCHANGED <<pipelineVars, loopVars, webhookVars, listing>>

InitPrompt ==
    /\ NoToolLoop
    /\ NoWebhook
    /\ abortControllers = [k \in Keys |-> None]
    /\ aborted = {}
    /\ created = 0
    /\ runs = <<>>
    /\ eventsLeft = [k \in Keys |-> 0]
    /\ callsLeft = 0
    /\ maxBatch = 0
    /\ listing = NoListing
    /\ prompt \in {[messages |-> Window(rows), built |-> FALSE, lines |-> <<>>] :
                      rows \in SeqsUpTo(Messages, MaxWindow)}

NextPrompt == FormatMessages

SpecPrompt == InitPrompt /\ [][NextPrompt]_vars

(***************************************************************************)
(* Properties                                                              *)
(***************************************************************************)

\* the controller created for run r has been aborted
Signaled(r) == runs[r].signal \in aborted

\* the run created by the most recent webhook of group k
LastRun(k) == CHOOSE r \in RunsOf(k) : \A q \in RunsOf(k) : q <= r

\* this step is run r calling sendGroupMessage with its generated reply
IssuesDelivery(r) == ~runs[r].delivered /\ runs'[r].delivered

\* this step is run r returning through a path that calls remove(groupId)
PerformsCleanup(r) == ~runs[r].removed /\ runs'[r].removed

\* this step is run r calling executeTool
DispatchesTool(r) ==
    /\ runs'[r].pc = "tool"
    /\ runs[r].pc # "tool" \/ runs'[r].batch # runs[r].batch

\* every webhook of group k arrived while all earlier runs of k were running
AllArrivedBeforeAnyCompleted(k) ==
    \A r \in RunsOf(k) : runs[r].liveAtBirth = {q \in RunsOf(k) : q < r}

\* every webhook of group k arrived while all earlier runs of k were running
\* and had not yet called sendGroupMessage with their reply
AllArrivedBeforeAnyDelivered(k) ==
    \A r \in RunsOf(k) : runs[r].freshAtBirth

Cancelled(r) == runs[r].outcome \in {"cancelled", "request_cancelled"}

\* C1 as stated: when the N webhooks of a group all arrive before any of
\* their runs has completed, only the run of the last webhook performs the
\* final delivery and every earlier run ends CANCELLED without delivering.
C1_AsStated ==
    \A k \in Keys : AllArrivedBeforeAnyCompleted(k) =>
        \A r \in RunsOf(k) : r # LastRun(k) =>
            /\ ~runs[r].delivered
            /\ ~Live(r) => Cancelled(r)

\* the delivery half of C1 as stated, alone
C1_AsStatedDelivery ==
    \A k \in Keys : AllArrivedBeforeAnyCompleted(k) =>
        \A r \in RunsOf(k) : r # LastRun(k) => ~runs[r].delivered

\* C1 amended: when the N webhooks of a group all arrive before any of their
\* runs has issued its final delivery or terminated, only the run of the last
\* webhook performs the final delivery; every earlier run ends without
\* delivering, whatever its outcome.
C1_LastOnlyDelivers ==
    \A k \in Keys : AllArrivedBeforeAnyDelivered(k) =>
        \A r \in RunsOf(k) : r # LastRun(k) =>
            /\ ~runs[r].delivered
            /\ runs[r].outcome # "done"

C1_Witness ==
    \E k \in Keys :
        /\ Cardinality(RunsOf(k)) = 3
        /\ AllArrivedBeforeAnyDelivered(k)
        /\ runs[LastRun(k)].outcome = "done"
        /\ \A r \in RunsOf(k) : ~Live(r)

\* C2: a group never has two runs that are still running and whose
\* controllers are both unaborted.
C2_AtMostOneLiveUnsignaled ==
    \A k \in Keys :
        Cardinality({r \in RunsOf(k) : Live(r) /\ ~Signaled(r)}) <= 1

\* C3: a run that issues its final delivery is, at that moment, the run of
\* the most recent webhook of its group.
C3_DeliveryOnlyByLatest ==
    [][\A r \in Runs : IssuesDelivery(r) => r = LastRun(runs[r].groupId)]_vars

\* C4: cancelAndCreate(key) aborts the controller registered for key, if
\* any, and registers and returns a new unaborted controller that is none of
\* the controllers created before.
C4_CancelAndCreate ==
    [][Len(runs') = Len(runs) + 1 =>
        LET new == runs'[Len(runs')].signal
            k == runs'[Len(runs')].groupId
        IN  /\ abortControllers[k] # None => abortControllers[k] \in aborted'
            /\ abortControllers'[k] = new
            /\ new # None
            /\ new \notin aborted'
            /\ \A q \in Runs : runs[q].signal # new
            /\ new \notin 1..created]_vars

C4_Witness ==
    \E k \in Keys : \E r \in RunsOf(k) :
        /\ Signaled(r)
        /\ abortControllers[k] # None
        /\ abortControllers[k] # runs[r].signal
        /\ abortControllers[k] \notin aborted

\* C5: of two cancelAndCreate calls on one group whose handlers overlap (the
\* run of the first is still running when the second is made), the two
\* controllers returned are never both registered and never both unaborted.
C5_NeverBothCurrent ==
    \A r2 \in Runs : \A r1 \in runs[r2].liveAtBirth :
        /\ ~(abortControllers[runs[r2].groupId] = runs[r1].signal
             /\ abortControllers[runs[r2].groupId] = runs[r2].signal)
        /\ ~(~Signaled(r1) /\ ~Signaled(r2))

\* C6: when a run performs its cleanup, the controller registered for its
\* group is left as it is unless it is the run's own.
C6_ReleaseGuardedByOwnership ==
    [][\A r \in Runs :
         (PerformsCleanup(r) /\ abortControllers[runs[r].groupId] # runs[r].signal)
             => abortControllers'[runs[r].groupId] = abortControllers[runs[r].groupId]]_vars

\* C7: every run that has terminated has called remove for its group.
C7_ReleaseOnEveryOutcome ==
    \A r \in Runs : ~Live(r) => runs[r].removed

\* C8: a run issues its final delivery only while its controller is
\* unaborted; once the controller is aborted the run never issues it.
C8_NoDeliveryOnceSignaled ==
    [][\A r \in Runs :
         /\ IssuesDelivery(r) => ~Signaled(r) /\ runs[r].pc = "completion"
         /\ Signaled(r) => runs'[r].delivered = runs[r].delivered]_vars

C8_Witness ==
    \E r, q \in Runs :
        /\ Signaled(r) /\ ~Live(r) /\ ~runs[r].delivered
        /\ runs[q].groupId = runs[r].groupId
        /\ runs[q].delivered /\ ~Signaled(q)

\* C9: a run whose controller is aborted while a completion request is
\* outstanding does nothing with the response: its only step is to end as
\* "Request cancelled", with no tool dispatched and no reply delivered.
C9_AbortedCallNotProcessed ==
    [][\A r \in Runs : (runs[r].pc = "completion" /\ Signaled(r)) =>
         \/ runs'[r] = runs[r]
         \/ /\ runs'[r].pc = "returned"
            /\ runs'[r].outcome = "request_cancelled"
            /\ runs'[r].delivered = runs[r].delivered]_vars

C9_Witness ==
    \E r \in Runs : Signaled(r) /\ runs[r].outcome = "request_cancelled"

\* C10: a run whose controller is aborted dispatches no further tool call.
C10_NoDispatchOnceSignaled ==
    [][\A r \in Runs : Signaled(r) => ~DispatchesTool(r)]_vars

\* a run that has returned takes no further step
ReturnedIsFinal(r) == runs[r].pc = "returned" => runs'[r] = runs[r]

\* C11: in every run the tool loop runs at most maxToolCalls iterations, and
\* the run issues at most maxToolCalls + 1 completion requests.
C11_LoopBounded ==
    \A r \in Runs :
        /\ runs[r].toolCallCount <= maxToolCalls
        /\ runs[r].completionCalls <= maxToolCalls + 1

C11_Witness ==
    \E r \in Runs :
        /\ runs[r].toolCallCount = maxToolCalls
        /\ runs[r].completionCalls = maxToolCalls + 1

\* the responses that request at least one tool call
ToolRequests == {resp \in Responses(maxBatch) : Len(resp.tool_calls) > 0}

\* C12: when the loop has run maxToolCalls iterations and the latest response
\* still requests tools, the run fails: it returns without delivering,
\* whatever the content of that response.
C12_ExhaustedIsFailure ==
    [][\A r \in Runs : \A resp \in ToolRequests :
         (runs[r].toolCallCount = maxToolCalls /\ CompletionSettles(r, resp))
             => /\ runs'[r].pc = "returned"
                /\ ~runs'[r].delivered]_vars

\* the responses with absent or empty content that request no tool call:
\* tool_calls is absent or an empty array
NoTextNoTools ==
    {resp \in Responses(0) : ~resp.error /\ resp.content \in {"absent", "empty"}}

\* C13: a response with absent or empty content and no tool call makes the
\* run fail with "No response generated": it returns at once, without a
\* further completion request and without delivering.
C13_NoResponseFails ==
    [][\A r \in Runs : \A resp \in NoTextNoTools :
         CompletionSettles(r, resp)
             => /\ runs'[r].pc = "returned"
                /\ runs'[r].outcome = "no_response"
                /\ ~runs'[r].delivered]_vars

\* C14: once a batch of tool calls is being handled, whatever the calls are,
\* the run goes on through the batch to the next completion request; it
\* never returns from within the batch.
C14_ToolErrorsNeverEscape ==
    [][\A r \in Runs :
         /\ runs[r].pc = "tool" => runs'[r].pc \in {"tool", "completion"}
         /\ \A resp \in ToolRequests :
              (LoopContinues(runs[r].toolCallCount, resp) /\ CompletionSettles(r, resp))
                  => runs'[r].pc \in {"tool", "completion"}]_vars

\* this step is one iteration of the for loop for the function call at the
\* head of toolCalls, its arguments parsed
HandlesHead ==
    /\ thrown = "none"
    /\ toolCalls # <<>>
    /\ Head(toolCalls).type = "function"
    /\ toolCalls' = Tail(toolCalls)

LastTurn(messages) == messages[Len(messages)]

\* C15: handling a call whose tool name is not registered makes executeTool
\* throw "Unknown tool" without any executor having run; the turns already
\* present are kept and exactly one turn is added: a tool message with the
\* id of that call and an error-shaped content.
C15_UnknownToolIsContained ==
    [][(HandlesHead /\ Head(toolCalls).name \notin Registered) =>
         /\ raised' = Append(raised, [id |-> Head(toolCalls).id, error |-> "UnknownTool"])
         /\ executed' = executed
         /\ Len(conversationMessages') = Len(conversationMessages) + 1
         /\ SubSeq(conversationMessages', 1, Len(conversationMessages)) = conversationMessages
         /\ LastTurn(conversationMessages').role = "tool"
         /\ LastTurn(conversationMessages').tool_call_id = Head(toolCalls).id
         /\ ErrorShaped(LastTurn(conversationMessages').content)]_vars

\* for a registered tool name, whatever the arguments and the outcome of the
\* external call, executeTool throws nothing and the executor returns a
\* string; a failure gives the failure JSON
RegisteredNeverRaises ==
    [][\A api \in {"ok", "fails"} : \A len \in ResultLengths :
         (HandleToolCall(api, len) /\ Head(toolCalls).name \in Registered) =>
             /\ raised' = raised
             /\ Len(executed') = Len(executed) + 1
             /\ LastTurn(executed').id = Head(toolCalls).id
             /\ (api = "fails" \/ Head(toolCalls).arguments = "null")
                    => LastTurn(executed').result.shape = "failure"]_vars

\* C16: for a registered tool name, whatever the arguments and the outcome
\* of the external call, executeTool throws nothing and returns a string, a
\* failure giving the failure JSON; and whatever the tool name, the only
\* exception executeTool throws is "Unknown tool".
C16_OnlyUnknownToolRaised ==
    [][/\ \A api \in {"ok", "fails"} : \A len \in ResultLengths :
            (HandleToolCall(api, len) /\ Head(toolCalls).name \in Registered) =>
                /\ raised' = raised
                /\ Len(executed') = Len(executed) + 1
                /\ LastTurn(executed').id = Head(toolCalls).id
                /\ (api = "fails" \/ Head(toolCalls).arguments = "null")
                       => LastTurn(executed').result.shape = "failure"
       /\ \A i \in 1..Len(raised') : raised'[i].error = "UnknownTool"]_vars

\* C17: a successful result of more than truncateAt characters is pushed as
\* its first truncateAt characters followed by the marker, a shorter one is
\* pushed unchanged, and the executor has completed with the full result
\* before the truncation.
C17_TruncatedAfterExecution ==
    [][\A len \in ResultLengths :
         (HandleToolCall("ok", len) /\ Head(toolCalls).name \in Registered
              /\ Head(toolCalls).arguments = "object") =>
             LET full == LastTurn(executed').result
                 pushed == LastTurn(conversationMessages').content
             IN  /\ Len(executed') = Len(executed) + 1
                 /\ ~full.marker
                 /\ Head(toolCalls).name \in {"get_user_histories", "web_search"}
                        => full.len = len
                 /\ pushed.shape = full.shape
                 /\ IF full.len > truncateAt
                    THEN pushed.len = truncateAt /\ pushed.marker
                    ELSE pushed = full]_vars

C17_Witness ==
    \E i \in 1..Len(conversationMessages) : \E j, k \in 1..Len(executed) :
        /\ conversationMessages[i].content.marker
        /\ conversationMessages[i].content.len = truncateAt
        /\ executed[j].id = conversationMessages[i].tool_call_id
        /\ executed[j].result.len > truncateAt
        /\ executed[j].result.shape \in {"success", "text"}
        /\ executed[k].result.len = truncateAt
        /\ \E t \in 1..Len(conversationMessages) :
              /\ conversationMessages[t].tool_call_id = executed[k].id
              /\ conversationMessages[t].content = executed[k].result

\* C18: a completion request that rejects with a service or transport error
\* ends the run: it returns with the error, having delivered nothing, and
\* takes no further step (no other completion request, no tool call).
C18_CompletionFailureIsTerminal ==
    [][\A r \in Runs :
         /\ \A resp \in {x \in Responses(0) : x.error} :
              CompletionSettles(r, resp)
                  => /\ runs'[r].pc = "returned"
                     /\ runs'[r].outcome = "completion_error"
                     /\ ~runs'[r].delivered
         /\ ReturnedIsFinal(r)]_vars

C18_Witness ==
    \E r \in Runs : runs[r].outcome = "completion_error" /\ ~runs[r].delivered

\* the run r is the only one its group has had
OnlyRun(r) == RunsOf(runs[r].groupId) = {r}

\* the responses that carry text and no tool_calls
TextOnly ==
    {resp \in Responses(0) : ~resp.error /\ ~resp.has_tool_calls /\ resp.content = "text"}

\* C19: for the only run of a group, a response with text and no tool calls
\* makes the run call sendGroupMessage with the reply; the reply is issued
\* once (a run that has issued it only awaits the send and returns); and when
\* the run has returned no controller is registered for the group.
C19_SingleEventDeliversOnce ==
    [][\A r \in Runs : OnlyRun(r) =>
         /\ \A resp \in TextOnly :
              CompletionSettles(r, resp)
                  => /\ IssuesDelivery(r)
                     /\ runs'[r].pc = "sending"
         /\ runs[r].delivered => runs[r].pc \in {"sending", "returned"}
         /\ runs[r].pc = "sending" =>
              \/ runs'[r] = runs[r]
              \/ /\ runs'[r].pc = "returned"
                 /\ runs'[r].delivered
                 /\ OnlyRun(r)' => abortControllers'[runs[r].groupId] = None]_vars

C19_Witness ==
    \E r \in Runs :
        /\ OnlyRun(r)
        /\ runs[r].outcome = "done"
        /\ runs[r].delivered
        /\ abortControllers[runs[r].groupId] = None

\* C20: a run whose fetched window is empty returns at once: it has issued
\* no completion request, dispatches no tool, delivers nothing, and takes no
\* further step.
C20_EmptyWindowStops ==
    [][\A r \in Runs :
         /\ FetchSettles(r, "empty")
                => /\ runs'[r].pc = "returned"
                   /\ runs'[r].completionCalls = 0
                   /\ ~runs'[r].delivered
         /\ ReturnedIsFinal(r)]_vars

C20_Witness ==
    \E r \in Runs : runs[r].outcome = "no_messages" /\ ~runs[r].delivered

\* C21: when the insert of the inbound message fails (dbError or timeout)
\* the run still goes on: unless its signal is aborted it issues the select,
\* and when the select returns rows and the signal is not aborted it issues
\* the first completion request.
C21_SaveIsBestEffort ==
    [][\A r \in Runs :
         /\ \A result \in {"dbError", "timeout"} :
              (SaveSettles(r, result) /\ ~Signaled(r)) => runs'[r].pc = "fetching"
         /\ (FetchSettles(r, "rows") /\ ~Signaled(r))
                => /\ runs'[r].pc = "completion"
                   /\ runs'[r].completionCalls = 1]_vars

C21_Witness ==
    \E r \in Runs : runs[r].pc = "completion" /\ ~Signaled(r)

\* the group for which controller c was created
GroupOf(c) == runs[CHOOSE r \in Runs : runs[r].signal = c].groupId

\* this step is made for group k: a webhook of k arrives or a run of k moves
StepOf(k) ==
    \/ Len(runs') = Len(runs) + 1 /\ runs'[Len(runs')].groupId = k
    \/ \E r \in RunsOf(k) : runs'[r] # runs[r]

\* C22: a step made for one group leaves the registered controller of every
\* other group as it is and aborts no controller created for another group.
C22_ScopedPerKey ==
    [][\A k \in Keys : StepOf(k) =>
         /\ \A other \in Keys \ {k} : abortControllers'[other] = abortControllers[other]
         /\ \A c \in aborted' \ aborted : GroupOf(c) = k]_vars

C22_Witness ==
    \E r, q \in Runs :
        /\ runs[r].groupId # runs[q].groupId
        /\ Signaled(r) /\ runs[r].removed
        /\ Live(q) /\ ~Signaled(q)
        /\ abortControllers[runs[q].groupId] = runs[q].signal

\* the responses with text that request no tool call: tool_calls is absent
\* or an empty array
TextNoTools ==
    {resp \in Responses(0) : ~resp.error /\ resp.content = "text"}

\* C28: after a response with one or more tool calls the run enters the loop
\* body (the assistant message is pushed and the batch is run); after a
\* response with text and no tool call, tool_calls absent or empty, the text
\* is the answer: the run leaves generateChatResponse without a further
\* completion request.
C28_DecisionAfterResponse ==
    [][\A r \in Runs :
         /\ \A resp \in ToolRequests :
              (CompletionSettles(r, resp) /\ runs[r].toolCallCount < maxToolCalls)
                  => \/ runs'[r].toolCallCount = runs[r].toolCallCount + 1
                     \/ runs'[r].outcome = "parse_error"
         /\ \A resp \in TextNoTools :
              CompletionSettles(r, resp) => runs'[r].pc \in {"sending", "returned"}]_vars

\* C23: send_audio_message calls sendGroupAudioMessage only for a media_url
\* that starts with https:// and has at most 256 characters; for every other
\* media_url it returns the failure JSON (success false) and calls no
\* delivery function.
C23_AudioUrlValidated ==
    \A i \in 1..Len(executed) :
        executed[i].name = "send_audio_message" =>
            LET u == executed[i].media_url
                good == u.kind = "string" /\ u.https /\ u.length <= 256
            IN  /\ executed[i].delivery = "sendGroupAudioMessage" => good
                /\ ~good => /\ executed[i].delivery = "none"
                            /\ executed[i].result.shape = "failure"

C23_Witness ==
    \E i, j \in 1..Len(executed) :
        /\ executed[i].name = "send_audio_message"
        /\ executed[i].media_url.https
        /\ executed[i].media_url.length = 256
        /\ executed[i].delivery = "sendGroupAudioMessage"
        /\ executed[i].result.shape = "success"
        /\ executed[j].name = "send_audio_message"
        /\ executed[j].media_url.https
        /\ executed[j].media_url.length = 257
        /\ executed[j].delivery = "none"
        /\ executed[j].result.shape = "failure"

\* C29: the calls of a batch are handled one at a time in the order
\* received: every step of the for loop takes the first call not yet
\* handled; for a call of type "function" it pushes exactly one tool
\* message with that call's id, whether the tool succeeded or failed; for a
\* call of another type it pushes nothing; the messages already pushed are
\* kept in their order.
C29_OneResultPerCallInOrder ==
    [][toolCalls # <<>> =>
         /\ toolCalls' = Tail(toolCalls)
         /\ IF Head(toolCalls).type = "function"
            THEN /\ Len(conversationMessages') = Len(conversationMessages) + 1
                 /\ SubSeq(conversationMessages', 1, Len(conversationMessages))
                        = conversationMessages
                 /\ LastTurn(conversationMessages').role = "tool"
                 /\ LastTurn(conversationMessages').tool_call_id = Head(toolCalls).id
            ELSE conversationMessages' = conversationMessages]_vars

\* the request that a response came from was a message_inbound with a group
StartsRun(webhook) ==
    /\ webhook.body = "json"
    /\ webhook.group_id # NoGroup
    /\ webhook.alert_type = "message_inbound"

C26_StoreIdempotent ==
    /\ [](\A i, j \in 1..Len(store) :
             store[i].message_id = store[j].message_id => i = j)
    /\ [][\A r \in Runs :
             (/\ Violates(store, Row(inbound[r].webhook, FALSE))
              /\ InsertSettles(r, "dbError", FALSE)
              /\ ~Signaled(r))
                => /\ runs'[r].pc = "fetching"
                   /\ store' = store]_vars

C26_Witness ==
    \E r \in Runs :
        /\ inbound[r].duplicate
        /\ runs[r].delivered
        /\ \E i \in 1..Len(store) : store[i].message_id = inbound[r].webhook.message_id

\* C27: in a successful response of either listing endpoint the limit is 50
\* when no limit was given and lies between 1 and 100 whatever integer was
\* given, the offset is not negative, and has_more is true exactly when the
\* total exceeds offset plus limit.
C27_PaginationBounds ==
    listing.status = 200 =>
        LET p == listing.pagination
        IN  /\ p.limit >= 1 /\ p.limit <= 100
            /\ ~listing.limit.given => p.limit = 50
            /\ p.offset >= 0
            /\ p.has_more <=> (p.total > p.offset + p.limit)

C27_Witness ==
    /\ listing.status = 200
    /\ listing.route = "messages"
    /\ listing.limit.given /\ listing.limit.value = 101
    /\ listing.offset.given /\ listing.offset.value = -1
    /\ listing.pagination.limit = 100
    /\ listing.pagination.offset = 0
    /\ listing.pagination.total = 101
    /\ listing.pagination.has_more

\* the places in the window of the messages that have a text
Kept(messages) == {i \in 1..Len(messages) : messages[i].text = "text"}

\* C30: the lines of the user turn are the messages of the window that have
\* a text, each once, the oldest (the last of the window) first; the line of
\* an assistant message has the label Assistant, the line of another
\* message its recipient, or Unknown when it has none.
C30_ChronologicalLines ==
    prompt.built =>
        LET messages == prompt.messages
            lines == prompt.lines
        IN  /\ Len(lines) = Cardinality(Kept(messages))
            /\ \A i \in 1..Len(lines) : lines[i].nth \in Kept(messages)
            /\ \A i, j \in 1..Len(lines) : i < j => lines[i].nth > lines[j].nth
            /\ \A i \in 1..Len(lines) :
                  LET msg == messages[lines[i].nth]
                  IN  lines[i].label =
                         IF msg.is_assistant THEN "Assistant"
                         ELSE IF msg.recipient = "null" THEN "Unknown"
                         ELSE msg.recipient

C30_Witness ==
    /\ prompt.built
    /\ Len(prompt.messages) = 3
    /\ Len(prompt.lines) = 2
    /\ prompt.lines[1].nth = 3
    /\ prompt.lines[1].label = "Unknown"
    /\ prompt.lines[2].nth = 1
    /\ prompt.lines[2].label = "Assistant"

\* the run that the step adds, if it adds one
NewRun == runs'[Len(runs')]

C32_RegisteredIsUnsignaled ==
    /\ [](\A k \in Keys :
             abortControllers[k] # None => abortControllers[k] \notin aborted)
    /\ [][/\ aborted \subseteq aborted'
           /\ \A c \in aborted' \ aborted :
                 \E k \in Keys : /\ abortControllers[k] = c
                                  /\ GroupOf(c) = k
                                  /\ abortControllers'[k] = created + 1
                                  /\ created' = created + 1]_vars

C32_Witness ==
    \E k \in Keys :
        /\ abortControllers[k] # None
        /\ abortControllers[k] \notin aborted
        /\ \E c \in aborted : GroupOf(c) = k

\* C33: a run that settles its insert or its select with its signal aborted
\* returns in that step, without a completion request made before or after,
\* without delivering and without touching the registry; it takes no
\* further step.
C33_SignaledStopsBeforeGeneration ==
    [][\A r \in Runs :
         /\ ReturnedIsFinal(r)
         /\ (/\ Signaled(r)
              /\ \/ \E result \in SaveResults : SaveSettles(r, result)
                 \/ \E result \in {"fetchError", "empty", "rows"} : FetchSettles(r, result))
                => /\ runs[r].completionCalls = 0
                   /\ runs'[r].pc = "returned"
                   /\ ~runs'[r].delivered
                   /\ abortControllers' = abortControllers]_vars

C33_Witness ==
    \E r \in Runs :
        /\ runs[r].outcome = "cancelled"
        /\ runs[r].pc = "returned"
        /\ ~runs[r].delivered
        /\ ~runs[r].removed

\* the number of characters of a string pushed as a tool message
Length(str) == str.len + (IF str.marker THEN markerLength ELSE 0)

\* C35: every tool message of the conversation, success-shaped or
\* error-shaped, is at most truncateAt characters and the marker long.
C35_ToolResultsCapped ==
    \A i \in 1..Len(conversationMessages) :
        conversationMessages[i].role = "tool"
            => Length(conversationMessages[i].content) <= truncateAt + markerLength

\* the assistant turn a tool turn at position i belongs to: the last one
\* before it (0 when there is none)
AssistantBefore(messages, i) ==
    LET before == { j \in 1..(i - 1) : messages[j].role = "assistant" }
    IN  IF before = {} THEN 0 ELSE CHOOSE j \in before : \A k \in before : k <= j

WellFormed(messages) ==
    /\ Len(messages) >= 2
    /\ messages[1].role = "system"
    /\ messages[2].role = "user"
    /\ \A i \in 1..Len(messages) :
          messages[i].role = "tool"
              => LET j == AssistantBefore(messages, i)
                 IN  /\ j # 0
                     /\ \E n \in 1..Len(messages[j].tool_calls) :
                            messages[j].tool_calls[n] = messages[i].tool_call_id

\* C34: in every state of a session the system and user turns are the
\* first two of the conversation and every tool turn follows, with no
\* assistant turn in between, the assistant turn that carries its id; every
\* step leaves the turns already there as they are, in place.
C34_AppendOnlyWellFormed ==
    /\ []WellFormed(conversationMessages)
    /\ [][/\ Len(conversationMessages') >= Len(conversationMessages)
           /\ SubSeq(conversationMessages', 1, Len(conversationMessages))
                  = conversationMessages]_vars

C34_Witness ==
    /\ callsLeft = 0
    /\ \E i, j \in 1..Len(conversationMessages) :
          /\ i + 1 < j
          /\ conversationMessages[i].role = "assistant"
          /\ conversationMessages[i + 1].role = "tool"
          /\ conversationMessages[j].role = "assistant"
          /\ j < Len(conversationMessages)
          /\ conversationMessages[j + 1].role = "tool"
          /\ conversationMessages[j + 1].tool_call_id # conversationMessages[i + 1].tool_call_id

\* the ways a run ends
Outcomes ==
    {"done", "send_error", "cancelled", "request_cancelled", "fetch_error",
     "no_messages", "completion_error", "no_response", "parse_error"}

Started(n) == n \in Runs

Terminated(n) ==
    /\ n \in Runs
    /\ runs[n].pc = "returned"
    /\ runs[n].outcome \in Outcomes

\* C36: every run that is started eventually returns, in one of the ways a
\* run ends, whatever the completion service answers and whenever the run
\* is superseded, provided that what it awaits settles.
C36_EveryRunTerminates ==
    \A n \in 1..2 : Started(n) ~> Terminated(n)

\* both runs have gone through every iteration of the loop and returned
C36_Witness ==
    /\ callsLeft = 1
    /\ Terminated(1)
    /\ Terminated(2)
    /\ runs[2].outcome \in {"done", "send_error", "no_response"}

\* C37: the final delivery of a run and every tool call of a run are made
\* with the group and the sender name of the webhook the run was started
\* for, which stay what they were when it started, whatever runs of other
\* groups do in between.
C37_DeliversToOwnTarget ==
    /\ [](\A r \in Runs :
             /\ runs[r].senderName = r
             /\ runs[r].delivered => runs[r].target = Own(r)
             /\ runs[r].pc = "tool" => runs[r].calledWith = Own(r)
             /\ runs[r].target \in {NoTarget, Own(r)}
             /\ runs[r].calledWith \in {NoTarget, Own(r)})
    /\ [][\A r \in Runs :
             /\ runs'[r].groupId = runs[r].groupId
             /\ runs'[r].senderName = runs[r].senderName
             /\ runs[r].target # NoTarget => runs'[r].target = runs[r].target]_vars

C37_Witness ==
    \E r, q \in Runs :
        /\ runs[r].groupId # runs[q].groupId
        /\ r < q
        /\ runs[r].pc = "tool"
        /\ runs[r].calledWith = Own(r)
        /\ runs[q].pc = "sending"
        /\ runs[q].target = Own(q)

====
